---- MODULE Spec2Model ----
(***************************************************************************)
(* generate-ssh-key: the sequential flow of main() in src/index.js and the *)
(* HTTPS -> SSH remote URL conversion.                                     *)
(*                                                                         *)
(* JavaScript strings that the code inspects (URLs) are sequences of       *)
(* one-character strings, so that the regular expression of                *)
(* convertToSshUrl is computed character by character.                     *)
(***************************************************************************)
EXTENDS Integers, Sequences, FiniteSets, TLC

VARIABLES
    plat,         \* os.platform(): "win32", "darwin" or "linux"
    pc,           \* position of main()
    exitCode,     \* process exit code: 0 unless process.exit(1) ran
    cause,        \* why the process exited with code 1
    sshDirState,  \* ~/.ssh: "absent", "dir", or "file" (a non-directory)
    sshDirPerm,   \* permissions of ~/.ssh: "none", "default", "ownerOnly"
    privKey,      \* contents of ~/.ssh/id_ed25519, NoFile when absent
    pubKey,       \* contents of ~/.ssh/id_ed25519.pub, NoFile when absent
    gitName,      \* global git config user.name, Unset when absent
    gitEmail,     \* global git config user.email, Unset when absent
    inWorkTree,   \* the working directory is inside a Git work tree
    originUrl,    \* remote.origin.url of the repository, null when absent
    calls,        \* external commands, prompts and file operations so far
    out,          \* messages printed so far
    start,        \* the persistent state when the process started
    keyExisted,   \* generateKey: fs.access(keyPath): "unchecked", "yes", "no"
    currentUrl,   \* main: const currentUrl / convertToSshUrl: httpsUrl
    sshUrl,       \* main: const sshUrl / convertToSshUrl: return value
    shape,        \* <<domain, owner, repo>> the input URL was built from
    simple        \* a run of main() of src/unnamed/part_000 from the same start

vars == <<plat, pc, exitCode, cause, sshDirState, sshDirPerm, privKey, pubKey,
          gitName, gitEmail, inWorkTree, originUrl, calls, out, start,
          keyExisted, currentUrl, sshUrl, shape, simple>>

-----------------------------------------------------------------------------
(* Bounds of the model *)

MaxSegPieces == 2
MaxUrlPieces == 4

-----------------------------------------------------------------------------
(* Strings *)

\* JavaScript null for a URL: distinct from every sequence of characters.
null == <<"null">>

HTTPS == <<"h", "t", "t", "p", "s", ":", "/", "/">>
HTTP == <<"h", "t", "t", "p", ":", "/", "/">>
FTP == <<"f", "t", "p", ":", "/", "/">>
GITAT == <<"g", "i", "t", "@">>
DOTGIT == <<".", "g", "i", "t">>
SLASH == <<"/">>
COLON == <<":">>
GITHUB == <<"g", "i", "t", "h", "u", "b", ".", "c", "o", "m">>
HOST == <<"h", "o", "s", "t">>
ALICE == <<"a", "l", "i", "c", "e">>
PROJ == <<"p", "r", "o", "j">>

startsWith(s, p) == Len(s) >= Len(p) /\ SubSeq(s, 1, Len(p)) = p

endsWith(s, p) == Len(s) >= Len(p) /\ SubSeq(s, Len(s) - Len(p) + 1, Len(s)) = p

\* The regular expression's "." matches any character but a line terminator.
DotStar(s) == \A i \in 1..Len(s) : s[i] # "\n"

\* /^https:\/\/(.*?)\/(.*?)\/(.*?)(?:\.git)?$/ on s: the ways to match, as
\* <<i, j, k>> = the lengths of the three groups.
RegexCandidates(s) ==
    IF ~startsWith(s, HTTPS) THEN {}
    ELSE LET r == SubSeq(s, Len(HTTPS) + 1, Len(s))
             n == Len(r)
             \* group 1 = r[1..i], followed by "/"
             G1 == { i \in 0..(n - 1) : r[i + 1] = "/" /\ DotStar(SubSeq(r, 1, i)) }
             \* group 2 = r[i+2..i+j+1], followed by "/"
             G2(i) == { j \in 0..(n - i - 2) :
                          r[i + j + 2] = "/" /\ DotStar(SubSeq(r, i + 2, i + j + 1)) }
             \* group 3 = r[i+j+3..i+j+k+2], followed by an optional ".git" and
             \* the end of the input
             G3(i, j) == { k \in 0..(n - i - j - 2) :
                             /\ DotStar(SubSeq(r, i + j + 3, i + j + k + 2))
                             /\ SubSeq(r, i + j + k + 3, n) \in {DOTGIT, <<>>} }
         IN  UNION { UNION { { <<i, j, k>> : k \in G3(i, j) } : j \in G2(i) } : i \in G1 }

\* Lazy groups: the backtracking matcher tries shorter groups first, left to
\* right, so the match found is the lexicographically least candidate.
LexLeq(c, d) ==
    \/ c[1] < d[1]
    \/ c[1] = d[1] /\ c[2] < d[2]
    \/ c[1] = d[1] /\ c[2] = d[2] /\ c[3] <= d[3]

\* httpsUrl.match(regex): null, or the groups [domain, username, repo].
RegexMatch(s) ==
    LET cands == RegexCandidates(s)
    IN  IF cands = {} THEN null
        ELSE LET c == CHOOSE x \in cands : \A y \in cands : LexLeq(x, y)
                 r == SubSeq(s, Len(HTTPS) + 1, Len(s))
             IN  << SubSeq(r, 1, c[1]),
                    SubSeq(r, c[1] + 2, c[1] + c[2] + 1),
                    SubSeq(r, c[1] + c[2] + 3, c[1] + c[2] + c[3] + 2) >>

\* A conversion whose repo group is greedy: a trailing .git stays in the
\* group and is then doubled.
convertToSshUrlGreedyRepo(httpsUrl) ==
    LET m == RegexMatch(httpsUrl)
    IN  IF m = null THEN null
        ELSE LET rest == SubSeq(httpsUrl,
                                Len(HTTPS) + Len(m[1]) + Len(m[2]) + 3,
                                Len(httpsUrl))
             IN  GITAT \o m[1] \o COLON \o m[2] \o SLASH \o rest \o DOTGIT

convertToSshUrl(httpsUrl) ==
    LET m == RegexMatch(httpsUrl)
    IN  IF m = null THEN null
        ELSE GITAT \o m[1] \o COLON \o m[2] \o SLASH \o m[3] \o DOTGIT

-----------------------------------------------------------------------------
(* The environment of one run *)

Platforms == {"win32", "darwin", "linux"}

\* const isWindows = platform() === "win32"
isWindows == plat = "win32"

\* const keyPath = join(sshDir, "id_ed25519"); pubKeyPath = `${keyPath}.pub`
keyPath == "~/.ssh/id_ed25519"
pubKeyPath == "~/.ssh/id_ed25519.pub"

NoFile == "absent"
Unset == "null"

\* What remote.origin.url may hold when the run starts.
RemoteUrls ==
    { HTTPS \o GITHUB \o SLASH \o ALICE \o SLASH \o PROJ \o DOTGIT,
      GITAT \o GITHUB \o COLON \o ALICE \o SLASH \o PROJ \o DOTGIT,
      HTTPS \o GITHUB \o SLASH \o ALICE \o SLASH \o PROJ,
      HTTP \o HOST \o SLASH \o <<"a">> \o SLASH \o <<"b">>,
      HTTPS \o HOST \o SLASH \o <<"a">>,
      <<>> }

Persistent ==
    [ sshDirState |-> sshDirState, sshDirPerm |-> sshDirPerm,
      privKey |-> privKey, pubKey |-> pubKey,
      gitName |-> gitName, gitEmail |-> gitEmail,
      inWorkTree |-> inWorkTree, originUrl |-> originUrl ]

Call(cmd, arg, ok) == [cmd |-> cmd, arg |-> arg, ok |-> ok]

Called(cmd) == SelectSeq(calls, LAMBDA c : c.cmd = cmd)

\* A JavaScript string or null used as a condition.
Truthy(v) == v # Unset /\ v # ""

TruthyUrl(u) == u # null /\ u # <<>>

InitEnv ==
    /\ plat \in Platforms
    /\ sshDirState \in {"absent", "dir", "file"}
    /\ sshDirPerm \in CASE sshDirState = "absent" -> {"none"}
                        [] sshDirState = "file" -> {"default"}
                        [] OTHER -> {"default", "ownerOnly"}
    /\ privKey \in IF sshDirState = "dir" THEN {NoFile, "old"} ELSE {NoFile}
    /\ pubKey \in IF sshDirState = "dir" THEN {NoFile, "old"} ELSE {NoFile}
    /\ gitName \in {Unset, "", "Old Name"}
    /\ gitEmail \in {Unset, "", "old@mail"}
    /\ inWorkTree \in BOOLEAN
    /\ originUrl \in IF inWorkTree THEN RemoteUrls \cup {null} ELSE {null}

\* The simpler entry point before its main() runs, in the same environment.
SimpleStart ==
    [ pc |-> "checkSSHKeygen", exitCode |-> 0,
      sshDirState |-> sshDirState, sshDirPerm |-> sshDirPerm,
      privKey |-> privKey, pubKey |-> pubKey, calls |-> <<>> ]

Init ==
    /\ InitEnv
    /\ simple = SimpleStart
    /\ pc = "checkGitInstalled"
    /\ exitCode = 0
    /\ cause = "none"
    /\ calls = <<>>
    /\ out = {}
    /\ start = Persistent
    /\ keyExisted = "unchecked"
    /\ currentUrl = null
    /\ sshUrl = null
    /\ shape = <<>>

fsVars == <<sshDirState, sshDirPerm, privKey, pubKey>>
cfgVars == <<gitName, gitEmail>>
repoVars == <<inWorkTree, originUrl>>
urlVars == <<currentUrl, sshUrl>>
constVars == <<plat, start, shape, simple>>

\* An exit that forgets the code: process.exit()
Exit1NoCode(why) ==
    /\ pc' = "exited"
    /\ exitCode' = 0
    /\ cause' = why

\* process.exit(1)
Exit1(why) ==
    /\ pc' = "exited"
    /\ exitCode' = 1
    /\ cause' = why

\* main returns: the process ends with the default exit code.
Finish ==
    /\ pc' = "exited"
    /\ UNCHANGED <<exitCode, cause>>

Goto(label) ==
    /\ pc' = label
    /\ UNCHANGED <<exitCode, cause>>

-----------------------------------------------------------------------------
(* main(), step by step *)

\* The install hint printed for the platform when Git is missing.
GitHint ==
    CASE plat = "win32" -> "Download from: https://git-scm.com/download/win"
      [] plat = "darwin" -> "Run: brew install git"
      [] OTHER -> "Run: sudo apt-get install git"

\* A hint that ignores the platform.
KeygenHintApt == "Run: sudo apt-get install openssh-client"

\* The install hint printed off Windows when ssh-keygen is missing.
KeygenHint ==
    IF plat = "darwin" THEN "Run: brew install openssh"
    ELSE "Run: sudo apt-get install openssh-client"

\* if (!(await checkGitInstalled())) { ...; process.exit(1) }
CheckGitInstalled ==
    /\ pc = "checkGitInstalled"
    /\ \E found \in BOOLEAN :
         /\ calls' = Append(calls, Call("which git", <<>>, found))
         /\ IF found
            THEN /\ Goto("setupGitConfig")
                 /\ out' = out
            ELSE /\ Exit1("Git is not installed")
                 /\ out' = out \cup {"Error: Git is not installed!", GitHint}
    /\ UNCHANGED <<fsVars, cfgVars, repoVars, urlVars, constVars, keyExisted>>

\* getGitConfig(key): the value of the key, null when the command fails
\* because the key is not set.
getGitConfig(key) == IF key = "user.name" THEN gitName ELSE gitEmail

\* inquirer asks a question only when its `when` holds; the answers object
\* has no entry for a question that was not asked.
Answers(value) == IF ~Truthy(value) THEN {"", "New Value"} ELSE {Unset}

\* A prompt list that asks every question, whatever `when` says.
PromptsUnconditional(name, email) ==
    << Call("prompt user.name", <<>>, TRUE), Call("prompt user.email", <<>>, TRUE) >>

\* The questions inquirer.prompt shows in setupGitConfig.
Prompts(name, email) ==
    (IF ~Truthy(name) THEN << Call("prompt user.name", <<>>, TRUE) >> ELSE <<>>)
    \o (IF ~Truthy(email) THEN << Call("prompt user.email", <<>>, TRUE) >> ELSE <<>>)

\* if (answers.name) await setGitConfig(...)
Writes(answer, value) == Truthy(answer)

\* await setupGitConfig()
SetupGitConfig ==
    /\ pc = "setupGitConfig"
    /\ LET name == getGitConfig("user.name")
           email == getGitConfig("user.email")
           reads == << Call("git config --global --get user.name", <<>>, name # Unset),
                       Call("git config --global --get user.email", <<>>, email # Unset) >>
       IN  IF Truthy(name) /\ Truthy(email)
           THEN /\ calls' = calls \o reads
                /\ Goto("checkSSHKeygen")
                /\ UNCHANGED <<cfgVars, out>>
           ELSE \E ansName \in Answers(name), ansEmail \in Answers(email),
                   okName \in BOOLEAN, okEmail \in BOOLEAN :
                  LET asked == calls \o reads \o Prompts(name, email)
                      wName == Writes(ansName, name)
                      wEmail == Writes(ansEmail, email)
                      setName == Call("git config --global user.name", <<ansName>>, okName)
                      setEmail == Call("git config --global user.email", <<ansEmail>>, okEmail)
                      incomplete == {"Git user configuration is incomplete."}
                  IN  IF wName /\ ~okName
                      THEN \* setGitConfig rejects: main's catch
                           /\ calls' = Append(asked, setName)
                           /\ out' = out \cup incomplete
                           /\ Exit1("setGitConfig user.name failed")
                           /\ UNCHANGED cfgVars
                      ELSE IF wEmail /\ ~okEmail
                      THEN /\ calls' = (IF wName THEN Append(asked, setName) ELSE asked)
                                       \o <<setEmail>>
                           /\ gitName' = IF wName THEN ansName ELSE gitName
                           /\ out' = out \cup incomplete
                                     \cup (IF wName THEN {"Git name configured successfully!"} ELSE {})
                           /\ Exit1("setGitConfig user.email failed")
                           /\ UNCHANGED gitEmail
                      ELSE /\ calls' = (IF wName THEN Append(asked, setName) ELSE asked)
                                       \o (IF wEmail THEN <<setEmail>> ELSE <<>>)
                           /\ gitName' = IF wName THEN ansName ELSE gitName
                           /\ gitEmail' = IF wEmail THEN ansEmail ELSE gitEmail
                           /\ out' = out \cup incomplete
                                     \cup (IF wName THEN {"Git name configured successfully!"} ELSE {})
                                     \cup (IF wEmail THEN {"Git email configured successfully!"} ELSE {})
                           /\ Goto("checkSSHKeygen")
    /\ UNCHANGED <<fsVars, repoVars, urlVars, constVars, keyExisted>>

\* if (!(await checkSSHKeygen())) { ... }
CheckSSHKeygen ==
    /\ pc = "checkSSHKeygen"
    /\ \E found \in BOOLEAN :
         /\ calls' = Append(calls, Call("which ssh-keygen", <<>>, found))
         /\ IF found
            THEN /\ Goto("ensureSSHDirectory")
                 /\ out' = out
            ELSE IF isWindows
            THEN /\ Goto("checkWindowsOpenSSH")
                 /\ out' = out
            ELSE /\ Exit1("ssh-keygen not found")
                 /\ out' = out \cup {"Error: ssh-keygen not found!", KeygenHint}
    /\ UNCHANGED <<fsVars, cfgVars, repoVars, urlVars, constVars, keyExisted>>

\* A capability check that treats "already installed" as success and goes on.
CheckWindowsOpenSSHShortCircuit ==
    /\ pc = "checkWindowsOpenSSH"
    /\ \E installed \in BOOLEAN :
         /\ calls' = Append(calls, Call("Get-WindowsCapability", <<>>, installed))
         /\ IF ~installed
            THEN Goto("installWindowsOpenSSH")
            ELSE Goto("ensureSSHDirectory")
         /\ out' = out
    /\ UNCHANGED <<fsVars, cfgVars, repoVars, urlVars, constVars, keyExisted>>

\* const isOpenSSHInstalled = await checkWindowsOpenSSH(), and the else
\* branch of if (!isOpenSSHInstalled)
CheckWindowsOpenSSH ==
    /\ pc = "checkWindowsOpenSSH"
    /\ \E installed \in BOOLEAN :
         /\ calls' = Append(calls, Call("Get-WindowsCapability", <<>>, installed))
         /\ IF ~installed
            THEN /\ Goto("installWindowsOpenSSH")
                 /\ out' = out
            ELSE /\ Exit1("ssh-keygen is not in PATH")
                 /\ out' = out \cup {"Error: OpenSSH is installed but ssh-keygen is not in PATH"}
    /\ UNCHANGED <<fsVars, cfgVars, repoVars, urlVars, constVars, keyExisted>>

\* if (!(await installWindowsOpenSSH())) process.exit(1)
InstallWindowsOpenSSH ==
    /\ pc = "installWindowsOpenSSH"
    /\ \E ok \in BOOLEAN :
         /\ calls' = Append(calls, Call("Add-WindowsCapability", <<>>, ok))
         /\ IF ok
            THEN /\ Goto("ensureSSHDirectory")
                 /\ out' = out \cup {"Installing OpenSSH...", "OpenSSH installed successfully!"}
            ELSE /\ Exit1("OpenSSH install failed")
                 /\ out' = out \cup {"Installing OpenSSH...",
                                     "Failed to install OpenSSH automatically."}
    /\ UNCHANGED <<fsVars, cfgVars, repoVars, urlVars, constVars, keyExisted>>

\* A directory step that sets permissions only on a directory it created.
EnsureSSHDirectoryCreatedOnly ==
    /\ pc = "ensureSSHDirectory"
    /\ \E mkdirOk \in BOOLEAN, permOk \in BOOLEAN :
         LET mkdir(ok) == Call("fs.mkdir", <<"~/.ssh">>, ok)
             perm == Call(IF isWindows THEN "icacls" ELSE "fs.chmod", <<"~/.ssh">>, permOk)
             created == IF sshDirState = "absent" THEN "default" ELSE sshDirPerm
         IN  CASE sshDirState = "file" ->
                    \* mkdir rejects with EEXIST: the catch swallows it
                    /\ calls' = Append(calls, mkdir(FALSE))
                    /\ Goto("generateKey")
                    /\ UNCHANGED <<sshDirState, sshDirPerm, out>>
               [] sshDirState = "absent" /\ ~mkdirOk ->
                    \* mkdir rejects with another code: rethrown to main's catch
                    /\ calls' = Append(calls, mkdir(FALSE))
                    /\ Exit1("Failed to create .ssh directory: mkdir failed")
                    /\ UNCHANGED <<sshDirState, sshDirPerm, out>>
               [] sshDirState = "dir" ->
                    \* nothing was created: the permission step is skipped
                    /\ calls' = Append(calls, mkdir(TRUE))
                    /\ Goto("generateKey")
                    /\ UNCHANGED <<sshDirState, sshDirPerm, out>>
               [] OTHER ->
                    /\ calls' = calls \o << mkdir(TRUE), perm >>
                    /\ sshDirState' = "dir"
                    /\ IF permOk
                       THEN /\ sshDirPerm' = "ownerOnly"
                            /\ Goto("generateKey")
                            /\ out' = out
                       ELSE IF isWindows
                       THEN \* the inner catch around icacls
                            /\ sshDirPerm' = created
                            /\ Goto("generateKey")
                            /\ out' = out \cup
                                 {"Warning: Could not set optimal permissions on .ssh directory"}
                       ELSE \* fs.chmod rejects inside the outer try: its code is
                            \* not EEXIST, so the catch rethrows
                            /\ sshDirPerm' = created
                            /\ Exit1("Failed to create .ssh directory: chmod failed")
                            /\ out' = out
    /\ UNCHANGED <<privKey, pubKey, cfgVars, repoVars, urlVars, constVars, keyExisted>>

\* await ensureSSHDirectory()
EnsureSSHDirectory ==
    /\ pc = "ensureSSHDirectory"
    /\ \E mkdirOk \in BOOLEAN, permOk \in BOOLEAN :
         LET mkdir(ok) == Call("fs.mkdir", <<"~/.ssh">>, ok)
             perm == Call(IF isWindows THEN "icacls" ELSE "fs.chmod", <<"~/.ssh">>, permOk)
             created == IF sshDirState = "absent" THEN "default" ELSE sshDirPerm
         IN  CASE sshDirState = "file" ->
                    \* mkdir rejects with EEXIST: the catch swallows it
                    /\ calls' = Append(calls, mkdir(FALSE))
                    /\ Goto("generateKey")
                    /\ UNCHANGED <<sshDirState, sshDirPerm, out>>
               [] sshDirState = "absent" /\ ~mkdirOk ->
                    \* mkdir rejects with another code: rethrown to main's catch
                    /\ calls' = Append(calls, mkdir(FALSE))
                    /\ Exit1("Failed to create .ssh directory: mkdir failed")
                    /\ UNCHANGED <<sshDirState, sshDirPerm, out>>
               [] OTHER ->
                    /\ calls' = calls \o << mkdir(TRUE), perm >>
                    /\ sshDirState' = "dir"
                    /\ IF permOk
                       THEN /\ sshDirPerm' = "ownerOnly"
                            /\ Goto("generateKey")
                            /\ out' = out
                       ELSE IF isWindows
                       THEN \* the inner catch around icacls
                            /\ sshDirPerm' = created
                            /\ Goto("generateKey")
                            /\ out' = out \cup
                                 {"Warning: Could not set optimal permissions on .ssh directory"}
                       ELSE \* fs.chmod rejects inside the outer try: its code is
                            \* not EEXIST, so the catch rethrows
                            /\ sshDirPerm' = created
                            /\ Exit1("Failed to create .ssh directory: chmod failed")
                            /\ out' = out
    /\ UNCHANGED <<privKey, pubKey, cfgVars, repoVars, urlVars, constVars, keyExisted>>

\* A check of the wrong file: the public key instead of the private key.
fsAccessPubKey(path) == pubKey # NoFile

\* await fs.access(path) resolves
fsAccess(path) == IF path = keyPath THEN privKey # NoFile ELSE pubKey # NoFile

\* A key generation that asks for another algorithm.
KeygenCommandRsa == <<"-t", "rsa", "-f", keyPath, "-N", "">>

\* const command = `ssh-keygen -t ed25519 -f "${keyPath}" -N ""`
KeygenCommand == <<"-t", "ed25519", "-f", keyPath, "-N", "">>

\* The clipboard pipe chosen for the platform.
ClipCommand ==
    CASE plat = "win32" -> "type | clip"
      [] plat = "darwin" -> "cat | pbcopy"
      [] OTHER -> "cat | xclip -selection clipboard"

\* await generateKey()
GenerateKey ==
    /\ pc = "generateKey"
    /\ \E genOk \in (IF sshDirState = "dir" THEN BOOLEAN ELSE {FALSE}),
          readOk \in BOOLEAN, clipOk \in BOOLEAN :
         LET exists == fsAccess(keyPath)
             access == Call("fs.access", <<keyPath>>, exists)
             keygen == Call("ssh-keygen", KeygenCommand, genOk)
             checked == IF exists THEN Append(calls, access)
                        ELSE calls \o << access, keygen >>
             generated == ~exists /\ genOk
             pub == IF generated THEN "generated" ELSE pubKey
             canRead == pub # NoFile /\ readOk
             said == IF exists THEN {"SSH key already exists at:"}
                     ELSE {"Generating new ED25519 SSH key..."}
         IN  /\ keyExisted' = IF privKey # NoFile THEN "yes" ELSE "no"
             /\ IF ~exists /\ ~genOk
                THEN \* ssh-keygen exits non-zero: wrapped and rethrown
                     /\ calls' = checked
                     /\ out' = out \cup said
                     /\ Exit1("Failed to generate SSH key: ssh-keygen failed")
                     /\ UNCHANGED <<privKey, pubKey>>
                ELSE /\ privKey' = IF generated THEN "generated" ELSE privKey
                     /\ pubKey' = pub
                     /\ IF ~canRead
                        THEN \* fs.readFile rejects: wrapped and rethrown
                             /\ calls' = Append(checked, Call("fs.readFile", <<pubKeyPath>>, FALSE))
                             /\ out' = out \cup said
                                       \cup (IF generated THEN {"SSH key generated successfully!"} ELSE {})
                             /\ Exit1("Failed to generate SSH key: readFile failed")
                        ELSE /\ calls' = checked \o
                                  << Call("fs.readFile", <<pubKeyPath>>, TRUE),
                                     Call(ClipCommand, <<pubKeyPath>>, clipOk) >>
                             /\ out' = out \cup said
                                       \cup (IF generated THEN {"SSH key generated successfully!"} ELSE {})
                                       \cup {"Your public SSH key:"}
                                       \cup (IF clipOk
                                             THEN {"Public key has been copied to your clipboard!"}
                                             ELSE {"Note: Could not copy to clipboard automatically"})
                             /\ Goto("isGitHubCliAvailable")
    /\ UNCHANGED <<sshDirState, sshDirPerm, cfgVars, repoVars, urlVars, constVars>>

\* const hasGitHubCli = await isGitHubCliAvailable()
IsGitHubCliAvailable ==
    /\ pc = "isGitHubCliAvailable"
    /\ \E found \in BOOLEAN, authed \in BOOLEAN :
         /\ calls' = calls \o << Call("which gh", <<>>, found) >>
                     \o (IF found THEN << Call("gh auth status", <<>>, authed) >> ELSE <<>>)
         /\ IF found /\ authed THEN Goto("promptUpload") ELSE Goto("showNextSteps")
    /\ UNCHANGED <<fsVars, cfgVars, repoVars, urlVars, constVars, keyExisted, out>>

\* const username = await getGitHubUsername(); const { upload } = await inquirer.prompt(...)
PromptUpload ==
    /\ pc = "promptUpload"
    /\ \E known \in BOOLEAN, upload \in BOOLEAN :
         /\ calls' = calls \o << Call("gh api user -q .login", <<>>, known),
                                 Call("prompt upload", <<>>, upload) >>
         /\ IF upload THEN Goto("uploadKeyToGitHub") ELSE Goto("showNextSteps")
    /\ UNCHANGED <<fsVars, cfgVars, repoVars, urlVars, constVars, keyExisted, out>>

\* An upload whose failure is not caught: it reaches main's catch.
uploadKeyToGitHubThrows(ok) ==
    IF ok
    THEN /\ Goto("showNextSteps")
         /\ out' = out \cup {"SSH key automatically added to your GitHub account!"}
    ELSE /\ Exit1("gh ssh-key add failed")
         /\ out' = out

\* uploadKeyToGitHub(pubKeyPath), given whether gh ssh-key add succeeds
uploadKeyToGitHub(ok) ==
    /\ Goto("showNextSteps")
    /\ out' = out \cup (IF ok
                        THEN {"SSH key automatically added to your GitHub account!"}
                        ELSE {"Failed to automatically add key to GitHub:"})

\* if (upload) await uploadKeyToGitHub(pubKeyPath)
UploadKeyToGitHub ==
    /\ pc = "uploadKeyToGitHub"
    /\ \E ok \in BOOLEAN :
         /\ calls' = Append(calls, Call("gh ssh-key add", <<pubKeyPath>>, ok))
         /\ uploadKeyToGitHub(ok)
    /\ UNCHANGED <<fsVars, cfgVars, repoVars, urlVars, constVars, keyExisted>>

\* showNextSteps()
ShowNextSteps ==
    /\ pc = "showNextSteps"
    /\ out' = out \cup {"Next steps:"}
    /\ Goto("isGitRepo")
    /\ UNCHANGED <<fsVars, cfgVars, repoVars, urlVars, constVars, keyExisted, calls>>

\* getCurrentRemoteUrl(): the trimmed origin URL, null when the command fails
getCurrentRemoteUrl == originUrl

\* if (currentUrl && !currentUrl.startsWith("git@"))
NeedsConversion(url) == TruthyUrl(url) /\ ~startsWith(url, GITAT)

\* if (await isGitRepo()) { const currentUrl = ...; const sshUrl = convertToSshUrl(currentUrl) ... }
IsGitRepo ==
    /\ pc = "isGitRepo"
    /\ IF ~inWorkTree
       THEN /\ calls' = Append(calls, Call("git rev-parse --is-inside-work-tree", <<>>, FALSE))
            /\ out' = out \cup {"Tip: To convert a repository's URL to SSH, run this command inside a Git repository"}
            /\ Finish
            /\ UNCHANGED urlVars
       ELSE LET url == getCurrentRemoteUrl
                converted == convertToSshUrl(url)
            IN  /\ calls' = calls \o
                      << Call("git rev-parse --is-inside-work-tree", <<>>, TRUE),
                         Call("git config --get remote.origin.url", <<>>, url # null) >>
                /\ currentUrl' = url
                /\ IF NeedsConversion(url)
                   THEN /\ sshUrl' = converted
                        /\ IF converted # null
                           THEN /\ Goto("promptConvert")
                                /\ out' = out
                           ELSE /\ Finish
                                /\ out' = out \cup {"Note: Current remote URL is not a GitHub/Bitbucket HTTPS URL. Skipping conversion."}
                   ELSE /\ sshUrl' = sshUrl
                        /\ Finish
                        /\ out' = out \cup {"Note: Current remote URL is already an SSH URL. Skipping conversion."}
    /\ UNCHANGED <<fsVars, cfgVars, repoVars, constVars, keyExisted>>

\* A conversion that does not wait for the answer.
ConfirmedAlways(convert) == TRUE

\* if (convert)
Confirmed(convert) == convert

\* const { convert } = await inquirer.prompt(...)
PromptConvert ==
    /\ pc = "promptConvert"
    /\ \E convert \in BOOLEAN :
         /\ calls' = Append(calls, Call("prompt convert", <<>>, convert))
         /\ IF Confirmed(convert) THEN Goto("setRemoteUrl") ELSE Finish
    /\ UNCHANGED <<fsVars, cfgVars, repoVars, urlVars, constVars, keyExisted, out>>

\* await execPromise(`git remote set-url origin ${sshUrl}`) and the messages after it
SetRemoteUrl ==
    /\ pc = "setRemoteUrl"
    /\ \E ok \in BOOLEAN :
         IF ok
         THEN /\ calls' = calls \o << Call("git remote set-url origin", sshUrl, TRUE),
                                      Call("console.log New URL:", sshUrl, TRUE) >>
              /\ originUrl' = sshUrl
              /\ out' = out \cup {"Repository remote URL converted to SSH successfully!"}
              /\ Finish
         ELSE \* the command rejects: main's catch
              /\ calls' = Append(calls, Call("git remote set-url origin", sshUrl, FALSE))
              /\ Exit1("git remote set-url failed")
              /\ UNCHANGED <<originUrl, out>>
    /\ UNCHANGED <<fsVars, cfgVars, inWorkTree, urlVars, constVars, keyExisted>>

Next ==
    \/ CheckGitInstalled
    \/ SetupGitConfig
    \/ CheckSSHKeygen
    \/ CheckWindowsOpenSSH
    \/ InstallWindowsOpenSSH
    \/ EnsureSSHDirectory
    \/ GenerateKey
    \/ IsGitHubCliAvailable
    \/ PromptUpload
    \/ UploadKeyToGitHub
    \/ ShowNextSteps
    \/ IsGitRepo
    \/ PromptConvert
    \/ SetRemoteUrl

Spec == Init /\ [][Next]_vars

-----------------------------------------------------------------------------
(* convertToSshUrl on its own: inputs drawn from bounded sets *)

RECURSIVE Concats(_, _)
\* The concatenations of at most n pieces of P.
Concats(P, n) ==
    IF n = 0 THEN {<<>>}
    ELSE LET shorter == Concats(P, n - 1)
         IN  shorter \cup {p \o q : p \in P, q \in shorter}

\* Path segments: no "/" and no line break.
Segments == Concats({<<"a">>, <<".">>, <<"g", "i", "t">>}, MaxSegPieces)

\* Repository names: segments that do not themselves end in ".git".
RepoSegments == {r \in Segments : ~endsWith(r, DOTGIT)}

BuildUrl(domain, owner, repo, dotGit) ==
    HTTPS \o domain \o SLASH \o owner \o SLASH \o repo
    \o (IF dotGit THEN DOTGIT ELSE <<>>)

\* Arbitrary inputs: concatenations of the pieces the expression looks at.
UrlPieces == {HTTPS, HTTP, GITAT, SLASH, DOTGIT, COLON, <<"a">>, <<"\n">>}

ArbitraryUrls == Concats(UrlPieces, MaxUrlPieces)

ListedUrls ==
    { GITAT \o HOST \o COLON \o <<"a">> \o SLASH \o <<"b">> \o DOTGIT,
      FTP \o HOST \o SLASH \o <<"a">> \o SLASH \o <<"b">>,
      HTTP \o HOST \o SLASH \o <<"a">> \o SLASH \o <<"b">>,
      HTTPS \o HOST \o SLASH \o <<"a">>,
      HTTPS \o HOST \o SLASH \o <<"a">> \o SLASH,
      HTTPS \o HOST \o SLASH \o SLASH \o <<"b">>,
      HTTPS \o HOST \o SLASH \o <<"a">> \o SLASH \o <<"b">> \o SLASH \o <<"c">> }

InitUrl ==
    /\ plat = "linux"
    /\ pc = "convert"
    /\ exitCode = 0
    /\ cause = "none"
    /\ sshDirState = "absent"
    /\ sshDirPerm = "none"
    /\ privKey = NoFile
    /\ pubKey = NoFile
    /\ gitName = Unset
    /\ gitEmail = Unset
    /\ inWorkTree = FALSE
    /\ originUrl = null
    /\ calls = <<>>
    /\ out = {}
    /\ start = Persistent
    /\ simple = SimpleStart
    /\ keyExisted = "unchecked"
    /\ sshUrl = null
    /\ \/ /\ shape \in Segments \X Segments \X RepoSegments
          /\ \E dotGit \in BOOLEAN :
               currentUrl = BuildUrl(shape[1], shape[2], shape[3], dotGit)
       \/ /\ shape = <<>>
          /\ currentUrl \in ArbitraryUrls \cup ListedUrls

\* const sshUrl = convertToSshUrl(currentUrl)
ApplyConvertToSshUrl ==
    /\ pc = "convert"
    /\ sshUrl' = convertToSshUrl(currentUrl)
    /\ pc' = "converted"
    /\ UNCHANGED <<exitCode, cause, fsVars, cfgVars, repoVars, constVars,
                   keyExisted, calls, out, currentUrl>>

NextUrl == ApplyConvertToSshUrl

SpecUrl == InitUrl /\ [][NextUrl]_vars

-----------------------------------------------------------------------------
(* What a run has done so far *)

\* Some invocation of cmd ended with outcome ok.
Did(cmd, ok) == \E i \in 1..Len(calls) : calls[i].cmd = cmd /\ calls[i].ok = ok

Invoked(cmd) == \E i \in 1..Len(calls) : calls[i].cmd = cmd

GenerateKeyRan == keyExisted # "unchecked"

GenerateKeyThrew ==
    cause \in {"Failed to generate SSH key: ssh-keygen failed",
               "Failed to generate SSH key: readFile failed"}

GenerateKeyReturned == GenerateKeyRan /\ ~GenerateKeyThrew

-----------------------------------------------------------------------------
(* main() of src/unnamed/part_000, run in the environment of the run above.  *)
(* An external command that the run of src/index.js invoked has the same     *)
(* outcome here; one it did not invoke may go either way.                    *)

Outcome(cmd) == IF Called(cmd) # <<>> THEN {Called(cmd)[1].ok} ELSE BOOLEAN

\* process.exit(1) of the simpler entry point
simpleExit1(s) == [s EXCEPT !.pc = "exited", !.exitCode = 1]

\* if (!(await checkSSHKeygen())) { ... }
simpleCheckSSHKeygen(s, found) ==
    LET t == [s EXCEPT !.calls = Append(@, Call("which ssh-keygen", <<>>, found))]
    IN  IF found THEN [t EXCEPT !.pc = "ensureSSHDirectory"]
        ELSE IF isWindows THEN [t EXCEPT !.pc = "checkWindowsOpenSSH"]
        ELSE simpleExit1(t)

\* const isOpenSSHInstalled = await checkWindowsOpenSSH(), and the else branch
simpleCheckWindowsOpenSSH(s, installed) ==
    LET t == [s EXCEPT !.calls = Append(@, Call("Get-WindowsCapability", <<>>, installed))]
    IN  IF ~installed THEN [t EXCEPT !.pc = "installWindowsOpenSSH"]
        ELSE simpleExit1(t)

\* if (!(await installWindowsOpenSSH())) process.exit(1)
simpleInstallWindowsOpenSSH(s, ok) ==
    LET t == [s EXCEPT !.calls = Append(@, Call("Add-WindowsCapability", <<>>, ok))]
    IN  IF ok THEN [t EXCEPT !.pc = "ensureSSHDirectory"]
        ELSE simpleExit1(t)

\* A directory step without the permission command.
simpleEnsureSSHDirectoryNoPermissions(s, mkdirOk, permOk) ==
    LET mkdir(ok) == Call("fs.mkdir", <<"~/.ssh">>, ok)
    IN  IF s.sshDirState = "file"
        THEN [s EXCEPT !.calls = Append(@, mkdir(FALSE)), !.pc = "generateKey"]
        ELSE IF s.sshDirState = "absent" /\ ~mkdirOk
        THEN simpleExit1([s EXCEPT !.calls = Append(@, mkdir(FALSE))])
        ELSE [s EXCEPT !.calls = Append(@, mkdir(TRUE)),
                       !.sshDirState = "dir",
                       !.sshDirPerm = IF s.sshDirState = "absent" THEN "default" ELSE @,
                       !.pc = "generateKey"]

\* await ensureSSHDirectory()
simpleEnsureSSHDirectory(s, mkdirOk, permOk) ==
    LET mkdir(ok) == Call("fs.mkdir", <<"~/.ssh">>, ok)
        perm == Call(IF isWindows THEN "icacls" ELSE "fs.chmod", <<"~/.ssh">>, permOk)
        created == IF s.sshDirState = "absent" THEN "default" ELSE s.sshDirPerm
    IN  IF s.sshDirState = "file"
        THEN \* EEXIST is swallowed
             [s EXCEPT !.calls = Append(@, mkdir(FALSE)), !.pc = "generateKey"]
        ELSE IF s.sshDirState = "absent" /\ ~mkdirOk
        THEN simpleExit1([s EXCEPT !.calls = Append(@, mkdir(FALSE))])
        ELSE LET t == [s EXCEPT !.calls = @ \o << mkdir(TRUE), perm >>,
                                !.sshDirState = "dir",
                                !.sshDirPerm = IF permOk THEN "ownerOnly" ELSE created]
             IN  IF permOk \/ isWindows
                 THEN [t EXCEPT !.pc = "generateKey"]
                 ELSE simpleExit1(t)

\* await generateKey(), then main() returns
simpleGenerateKey(s, genOk, readOk, clipOk) ==
    LET exists == s.privKey # NoFile
        access == Call("fs.access", <<keyPath>>, exists)
        keygen == Call("ssh-keygen", <<"-t", "ed25519", "-f", keyPath, "-N", "">>, genOk)
        checked == IF exists THEN Append(s.calls, access)
                   ELSE s.calls \o << access, keygen >>
        generated == ~exists /\ genOk
        pub == IF generated THEN "generated" ELSE s.pubKey
    IN  IF ~exists /\ ~genOk
        THEN simpleExit1([s EXCEPT !.calls = checked])
        ELSE LET t == [s EXCEPT !.privKey = IF generated THEN "generated" ELSE @,
                                !.pubKey = pub]
             IN  IF pub = NoFile \/ ~readOk
                 THEN simpleExit1([t EXCEPT !.calls =
                          Append(checked, Call("fs.readFile", <<pubKeyPath>>, FALSE))])
                 ELSE [t EXCEPT !.calls = checked \o
                                   << Call("fs.readFile", <<pubKeyPath>>, TRUE),
                                      Call(ClipCommand, <<pubKeyPath>>, clipOk) >>,
                                !.pc = "exited"]

\* The simpler main() starts once the full one has exited.
SimpleAt(label) == pc = "exited" /\ simple.pc = label

simpleFrame ==
    <<plat, pc, exitCode, cause, fsVars, cfgVars, repoVars, urlVars, calls, out,
      start, keyExisted, shape>>

SimpleCheckSSHKeygen ==
    /\ SimpleAt("checkSSHKeygen")
    /\ \E found \in Outcome("which ssh-keygen") :
         simple' = simpleCheckSSHKeygen(simple, found)
    /\ UNCHANGED simpleFrame

SimpleCheckWindowsOpenSSH ==
    /\ SimpleAt("checkWindowsOpenSSH")
    /\ \E installed \in Outcome("Get-WindowsCapability") :
         simple' = simpleCheckWindowsOpenSSH(simple, installed)
    /\ UNCHANGED simpleFrame

SimpleInstallWindowsOpenSSH ==
    /\ SimpleAt("installWindowsOpenSSH")
    /\ \E ok \in Outcome("Add-WindowsCapability") :
         simple' = simpleInstallWindowsOpenSSH(simple, ok)
    /\ UNCHANGED simpleFrame

SimpleEnsureSSHDirectory ==
    /\ SimpleAt("ensureSSHDirectory")
    /\ \E mkdirOk \in Outcome("fs.mkdir"),
          permOk \in Outcome(IF isWindows THEN "icacls" ELSE "fs.chmod") :
         simple' = simpleEnsureSSHDirectory(simple, mkdirOk, permOk)
    /\ UNCHANGED simpleFrame

SimpleGenerateKey ==
    /\ SimpleAt("generateKey")
    /\ \E genOk \in (IF simple.sshDirState = "dir" THEN Outcome("ssh-keygen") ELSE {FALSE}),
          readOk \in Outcome("fs.readFile"), clipOk \in Outcome(ClipCommand) :
         simple' = simpleGenerateKey(simple, genOk, readOk, clipOk)
    /\ UNCHANGED simpleFrame

NextPair ==
    \/ Next
    \/ SimpleCheckSSHKeygen
    \/ SimpleCheckWindowsOpenSSH
    \/ SimpleInstallWindowsOpenSSH
    \/ SimpleEnsureSSHDirectory
    \/ SimpleGenerateKey

SpecPair == Init /\ [][NextPair]_vars

-----------------------------------------------------------------------------
(* Claims *)

\* C1: in every run in which the private key file exists when generateKey
\* checks for it, ssh-keygen is never invoked, and the private key file holds
\* at every later point, process exit included, what it held at process start.
C1_ExistingKeyUntouched ==
    keyExisted = "yes" =>
        /\ ~Invoked("ssh-keygen")
        /\ privKey = start.privKey
        /\ privKey # NoFile

C1_Witness ==
    /\ keyExisted = "yes"
    /\ pc = "exited"
    /\ exitCode = 0
    /\ start.pubKey # NoFile

\* C2: in every run in which the private key file is absent when generateKey
\* checks for it and generateKey returns without throwing, the private and
\* the public key file both exist afterwards, and ssh-keygen was invoked
\* exactly once, for the ed25519 algorithm, the fixed path and an empty
\* passphrase.
C2_AbsentKeyGenerated ==
    (keyExisted = "no" /\ GenerateKeyReturned) =>
        /\ privKey # NoFile
        /\ pubKey # NoFile
        /\ Len(Called("ssh-keygen")) = 1
        /\ Called("ssh-keygen")[1].ok
        /\ Called("ssh-keygen")[1].arg =
              <<"-t", "ed25519", "-f", "~/.ssh/id_ed25519", "-N", "">>

C2_Witness ==
    /\ keyExisted = "no"
    /\ GenerateKeyReturned
    /\ start.sshDirState = "absent"
    /\ pc = "exited"

\* C3: for every domain, owner and repo (path segments: no "/", the repo not
\* itself ending in ".git"), convertToSshUrl of https://<domain>/<owner>/<repo>
\* and of https://<domain>/<owner>/<repo>.git is git@<domain>:<owner>/<repo>.git.
C3_RoundTrip ==
    (pc = "converted" /\ Len(shape) = 3) =>
        sshUrl = GITAT \o shape[1] \o COLON \o shape[2] \o SLASH \o shape[3] \o DOTGIT

C3_Witness ==
    /\ pc = "converted"
    /\ Len(shape) = 3
    /\ shape[1] # <<>> /\ shape[2] # <<>> /\ shape[3] # <<>>
    /\ endsWith(currentUrl, DOTGIT)
    /\ sshUrl # null

\* u is https://<domain>/<owner>/<repo> or that followed by ".git": exactly
\* two "/" after the scheme, around three non-empty segments.
ExactShape(u) ==
    /\ startsWith(u, HTTPS)
    /\ LET r == SubSeq(u, Len(HTTPS) + 1, Len(u))
           slashes == {i \in 1..Len(r) : r[i] = "/"}
       IN  /\ Cardinality(slashes) = 2
           /\ DotStar(r)
           /\ \E i \in slashes, j \in slashes :
                i > 1 /\ j > i + 1 /\ j < Len(r)

\* C4: convertToSshUrl returns null for every input that is not of the exact
\* shape https://<domain>/<owner>/<repo> with an optional trailing .git.
C4_NullUnlessExactShape ==
    (pc = "converted" /\ ~ExactShape(currentUrl)) => sshUrl = null

SetupGitConfigRan == Invoked("git config --global --get user.name")

\* Every write of the key passed a value the user typed.
WroteSupplied(cmd) ==
    \A i \in 1..Len(calls) :
        calls[i].cmd = cmd => calls[i].arg[1] \notin {"", Unset}

\* C5: in setupGitConfig, for user.name and user.email independently: the
\* prompt for the key appears if and only if the key had no value when read
\* (unset, or set to the empty string); the key is written only if it had no
\* value and the user supplied one; a key that had a value is never prompted
\* for and keeps its value, whatever the state of the other key.
C5_OnlyAbsentKeysPromptedAndWritten ==
    SetupGitConfigRan =>
        /\ Invoked("prompt user.name") <=> ~Truthy(start.gitName)
        /\ Invoked("prompt user.email") <=> ~Truthy(start.gitEmail)
        /\ Invoked("git config --global user.name") => ~Truthy(start.gitName)
        /\ Invoked("git config --global user.email") => ~Truthy(start.gitEmail)
        /\ WroteSupplied("git config --global user.name")
        /\ WroteSupplied("git config --global user.email")
        /\ Truthy(start.gitName) => gitName = start.gitName
        /\ Truthy(start.gitEmail) => gitEmail = start.gitEmail
        /\ gitName # start.gitName => Did("git config --global user.name", TRUE)
        /\ gitEmail # start.gitEmail => Did("git config --global user.email", TRUE)

C5_Witness ==
    /\ start.gitName = "Old Name"
    /\ start.gitEmail = Unset
    /\ ~Invoked("prompt user.name")
    /\ Invoked("prompt user.email")
    /\ gitName = "Old Name"
    /\ gitEmail = "New Value"
    /\ pc = "exited"

SetUrlCalls == Called("git remote set-url origin")

ExampleHttps == HTTPS \o GITHUB \o SLASH \o ALICE \o SLASH \o PROJ \o DOTGIT

ExampleSsh == GITAT \o GITHUB \o COLON \o ALICE \o SLASH \o PROJ \o DOTGIT

\* C6: git remote set-url origin is invoked only if, earlier in the run, the
\* working directory was found inside a work tree, the origin URL was read
\* and is non-null, it does not start with "git@", convertToSshUrl returned
\* non-null for it and the user answered yes; the URL written and the URL
\* shown are convertToSshUrl of the URL read
\* (https://github.com/alice/proj.git gives git@github.com:alice/proj.git);
\* in every other run the remote URL is unchanged.
C6_RemoteRewrittenOnlyOnConfirmation ==
    /\ SetUrlCalls # <<>> =>
          /\ Len(SetUrlCalls) = 1
          /\ Did("git rev-parse --is-inside-work-tree", TRUE)
          /\ Did("git config --get remote.origin.url", TRUE)
          /\ currentUrl = start.originUrl
          /\ currentUrl # null
          /\ ~startsWith(currentUrl, GITAT)
          /\ convertToSshUrl(currentUrl) # null
          /\ Called("prompt convert") = << Call("prompt convert", <<>>, TRUE) >>
          /\ SetUrlCalls[1].arg = convertToSshUrl(currentUrl)
          /\ currentUrl = ExampleHttps => SetUrlCalls[1].arg = ExampleSsh
    /\ \A i \in 1..Len(calls) :
          calls[i].cmd = "console.log New URL:" =>
              /\ Did("git remote set-url origin", TRUE)
              /\ calls[i].arg = SetUrlCalls[1].arg
    /\ IF Did("git remote set-url origin", TRUE)
       THEN originUrl = convertToSshUrl(start.originUrl)
       ELSE originUrl = start.originUrl

C6_Witness ==
    /\ start.originUrl = ExampleHttps
    /\ originUrl = ExampleSsh
    /\ Invoked("console.log New URL:")
    /\ pc = "exited"
    /\ exitCode = 0

GitMissing == Did("which git", FALSE)

KeygenUnavailable ==
    Did("which ssh-keygen", FALSE) /\ ~Did("Add-WindowsCapability", TRUE)

\* fs.mkdir rejected, and not because the path already exists
DirCreationFailed == Did("fs.mkdir", FALSE) /\ start.sshDirState # "file"

KeyGenerationFailed == Did("ssh-keygen", FALSE)

FourFatal ==
    GitMissing \/ KeygenUnavailable \/ DirCreationFailed \/ KeyGenerationFailed

UncaughtFailure ==
    \/ Did("git config --global user.name", FALSE)
    \/ Did("git config --global user.email", FALSE)
    \/ Did("fs.chmod", FALSE)
    \/ Did("fs.readFile", FALSE)
    \/ Did("git remote set-url origin", FALSE)

KeygenMissingOffWindows == plat # "win32" /\ Did("which ssh-keygen", FALSE)

HintPrinted ==
    /\ "Error: ssh-keygen not found!" \in out
    /\ plat = "darwin" => "Run: brew install openssh" \in out
    /\ plat = "linux" => "Run: sudo apt-get install openssh-client" \in out

FilesAndRemoteUntouched ==
    /\ <<sshDirState, sshDirPerm, privKey, pubKey>> =
          <<start.sshDirState, start.sshDirPerm, start.privKey, start.pubKey>>
    /\ ~Invoked("fs.mkdir") /\ ~Invoked("fs.chmod") /\ ~Invoked("ssh-keygen")
    /\ originUrl = start.originUrl
    /\ ~Invoked("git remote set-url origin")

\* C8 as stated: off Windows, when ssh-keygen is not found the process exits
\* with code 1 after the platform's install hint and no persistent state was
\* mutated: SSH directory, key files, global Git config and remote are as at
\* the start.
C8_NothingMutated ==
    KeygenMissingOffWindows =>
        /\ pc = "exited" /\ exitCode = 1
        /\ HintPrinted
        /\ FilesAndRemoteUntouched
        /\ gitName = start.gitName
        /\ gitEmail = start.gitEmail

\* C8, amended: off Windows, when the ssh-keygen probe fails the process
\* exits with code 1 after the platform's install hint; the SSH directory,
\* the key files and the remote are as at the start; a global Git config key
\* differs from the start only if setupGitConfig, which runs before the
\* probe, wrote it because it had no value and the user supplied one.
C8_OnlyGitConfigMayChange ==
    KeygenMissingOffWindows =>
        /\ pc = "exited" /\ exitCode = 1
        /\ HintPrinted
        /\ FilesAndRemoteUntouched
        /\ gitName # start.gitName =>
              ~Truthy(start.gitName) /\ Did("git config --global user.name", TRUE)
        /\ gitEmail # start.gitEmail =>
              ~Truthy(start.gitEmail) /\ Did("git config --global user.email", TRUE)

C8_Witness ==
    /\ KeygenMissingOffWindows
    /\ plat = "darwin"
    /\ gitName # start.gitName
    /\ start.sshDirState = "absent"

PermissionFailed == Did("fs.chmod", FALSE) \/ Did("icacls", FALSE)

ClipboardFailed == \E i \in 1..Len(calls) :
    /\ calls[i].cmd \in {"type | clip", "cat | pbcopy", "cat | xclip -selection clipboard"}
    /\ ~calls[i].ok

\* C9: on every platform, a failure to restrict the SSH directory's
\* permissions, and likewise a failure of the clipboard copy, is only logged:
\* the function does not throw, the flow continues with the next step, and
\* the process does not exit with code 1 because of it.
C9_PermissionAndClipboardFailuresNotFatal ==
    /\ PermissionFailed =>
          /\ pc = "generateKey" \/ GenerateKeyRan
          /\ cause # "Failed to create .ssh directory: chmod failed"
    /\ ClipboardFailed =>
          /\ GenerateKeyReturned
          /\ "Note: Could not copy to clipboard automatically" \in out
          /\ pc # "generateKey"

UploadFailed == Did("gh ssh-key add", FALSE)

\* C10: when the GitHub CLI is present and authenticated and the user
\* confirms the upload, a failing gh ssh-key add does not abort the flow: the
\* next steps are shown and the remote URL step (work-tree probe, origin read,
\* conversion prompt when the URL is convertible) runs as after a successful
\* upload, and the failure never causes exit code 1.
C10_UploadFailureDoesNotAbort ==
    UploadFailed =>
        /\ Did("which gh", TRUE) /\ Did("gh auth status", TRUE)
        /\ Did("prompt upload", TRUE)
        /\ "Failed to automatically add key to GitHub:" \in out
        /\ pc \in {"showNextSteps", "isGitRepo", "promptConvert", "setRemoteUrl", "exited"}
        /\ exitCode = 1 => Did("git remote set-url origin", FALSE)
        /\ pc \in {"promptConvert", "setRemoteUrl", "exited"} =>
              /\ "Next steps:" \in out
              /\ Invoked("git rev-parse --is-inside-work-tree")
              /\ Invoked("git config --get remote.origin.url") <=> start.inWorkTree
              /\ Invoked("prompt convert") \/ pc = "promptConvert" <=>
                    /\ start.inWorkTree
                    /\ NeedsConversion(start.originUrl)
                    /\ convertToSshUrl(start.originUrl) # null

C10_Witness ==
    /\ UploadFailed
    /\ pc = "exited"
    /\ exitCode = 0
    /\ Did("git remote set-url origin", TRUE)

InstallerEntered == Invoked("Get-WindowsCapability")

\* The flow went on from the installer to ensureSSHDirectory.
ContinuedToSSHDirectory == pc = "ensureSSHDirectory" \/ Invoked("fs.mkdir")

InstallerHalted ==
    /\ pc = "exited"
    /\ exitCode = 1
    /\ cause \in {"ssh-keygen is not in PATH", "OpenSSH install failed"}

\* C11 as stated: on Windows, once the installer is entered (ssh-keygen not
\* found), a capability query that reports OpenSSH installed short-circuits
\* to success: the install command does not run and the flow continues to
\* ensureSSHDirectory; otherwise the install command runs exactly once, and
\* only its failure halts the flow with exit code 1.
C11_AlreadyInstalledContinues ==
    InstallerEntered =>
        /\ plat = "win32" /\ Did("which ssh-keygen", FALSE)
        /\ Did("Get-WindowsCapability", TRUE) =>
              ~Invoked("Add-WindowsCapability") /\ ContinuedToSSHDirectory
        /\ Did("Get-WindowsCapability", FALSE) =>
              \/ pc = "installWindowsOpenSSH"
              \/ Len(Called("Add-WindowsCapability")) = 1
        /\ Did("Add-WindowsCapability", TRUE) => ContinuedToSSHDirectory
        /\ InstallerHalted <=> Did("Add-WindowsCapability", FALSE)

\* C11, amended: on Windows, once the installer is entered (ssh-keygen not
\* found), a capability query that reports OpenSSH installed runs no install
\* command and halts the flow with exit code 1 ("OpenSSH is installed but
\* ssh-keygen is not in PATH"); otherwise the install command runs exactly
\* once, its success continues to ensureSSHDirectory and its failure halts
\* the flow with exit code 1.
C11_AlreadyInstalledHalts ==
    InstallerEntered =>
        /\ plat = "win32" /\ Did("which ssh-keygen", FALSE)
        /\ Did("Get-WindowsCapability", TRUE) =>
              /\ ~Invoked("Add-WindowsCapability")
              /\ InstallerHalted
              /\ "Error: OpenSSH is installed but ssh-keygen is not in PATH" \in out
              /\ ~Invoked("fs.mkdir") /\ ~Invoked("ssh-keygen")
        /\ Did("Get-WindowsCapability", FALSE) =>
              \/ pc = "installWindowsOpenSSH"
              \/ Len(Called("Add-WindowsCapability")) = 1
        /\ Did("Add-WindowsCapability", TRUE) => ContinuedToSSHDirectory
        /\ Did("Add-WindowsCapability", FALSE) => InstallerHalted
        /\ InstallerHalted <=>
              Did("Get-WindowsCapability", TRUE) \/ Did("Add-WindowsCapability", FALSE)

C11_Witness ==
    /\ Did("Get-WindowsCapability", TRUE)
    /\ InstallerHalted
    /\ start.sshDirState = "absent"
    /\ sshDirState = "absent"

PermissionCommand == IF isWindows THEN "icacls" ELSE "fs.chmod"

\* C12 as stated: when the SSH directory exists before the run,
\* ensureSSHDirectory leaves its permissions unchanged; chmod 0700 (icacls on
\* Windows) is applied only in runs that created the directory.
C12_ExistingDirectoryPermissionsUnchanged ==
    /\ start.sshDirState = "dir" =>
          sshDirPerm = start.sshDirPerm /\ ~Invoked(PermissionCommand)
    /\ Invoked(PermissionCommand) => start.sshDirState = "absent"

\* C12, amended: ensureSSHDirectory applies the owner-only restriction
\* (chmod 0700, icacls on Windows) exactly once in every run in which mkdir
\* resolves, whether the directory was created by this run or existed
\* before; a pre-existing directory always gets it, and its permissions
\* become owner-only when the command succeeds. The restriction is skipped
\* only when mkdir rejects, and the permissions are then left as they were.
C12_PermissionsAppliedWheneverMkdirResolves ==
    /\ Did("fs.mkdir", TRUE) <=> Invoked(PermissionCommand)
    /\ Len(Called(PermissionCommand)) <= 1
    /\ start.sshDirState = "dir" /\ Invoked("fs.mkdir") => Invoked(PermissionCommand)
    /\ Did(PermissionCommand, TRUE) => sshDirPerm = "ownerOnly"
    /\ Did(PermissionCommand, FALSE) =>
          sshDirPerm = IF start.sshDirState = "dir" THEN start.sshDirPerm ELSE "default"
    /\ ~Invoked(PermissionCommand) =>
          sshDirPerm = start.sshDirPerm /\ sshDirState = start.sshDirState

C12_Witness ==
    /\ start.sshDirState = "dir"
    /\ start.sshDirPerm = "default"
    /\ Did(PermissionCommand, TRUE)
    /\ sshDirPerm = "ownerOnly"

PublicKeyUnreadable == keyExisted = "yes" /\ Did("fs.readFile", FALSE)

\* C13: in every run in which the private key file exists but the public key
\* file is absent or unreadable, generateKey does not invoke ssh-keygen and
\* writes no file; it throws an error with the prefix "Failed to generate SSH
\* key", the process exits with code 1, and the clipboard copy, the GitHub
\* upload and the remote URL rewrite are not executed.
C13_MissingPublicKeyIsFatal ==
    /\ GenerateKeyRan /\ keyExisted = "yes" /\ start.pubKey = NoFile =>
          Did("fs.readFile", FALSE)
    /\ PublicKeyUnreadable =>
          /\ ~Invoked("ssh-keygen")
          /\ privKey = start.privKey /\ pubKey = start.pubKey
          /\ cause = "Failed to generate SSH key: readFile failed"
          /\ pc = "exited" /\ exitCode = 1
          /\ ~Invoked(ClipCommand)
          /\ "Public key has been copied to your clipboard!" \notin out
          /\ ~Invoked("which gh") /\ ~Invoked("gh ssh-key add")
          /\ ~Invoked("git rev-parse --is-inside-work-tree")
          /\ ~Invoked("git remote set-url origin")
          /\ originUrl = start.originUrl

C13_Witness ==
    /\ PublicKeyUnreadable
    /\ start.privKey # NoFile
    /\ start.pubKey = NoFile
    /\ exitCode = 1

\* The steps the two entry points have in common.
SharedCommands ==
    {"which ssh-keygen", "Get-WindowsCapability", "Add-WindowsCapability",
     "fs.mkdir", "fs.chmod", "icacls", "fs.access", "ssh-keygen", "fs.readFile",
     "type | clip", "cat | pbcopy", "cat | xclip -selection clipboard"}

SharedCalls == SelectSeq(calls, LAMBDA c : c.cmd \in SharedCommands)

\* Git installed, both identity keys set, the GitHub CLI unavailable or
\* unauthenticated, the working directory outside a Git work tree.
SimpleEnvironment ==
    /\ Did("which git", TRUE)
    /\ Truthy(start.gitName) /\ Truthy(start.gitEmail)
    /\ ~Did("gh auth status", TRUE)
    /\ ~start.inWorkTree

BothExited == pc = "exited" /\ simple.pc = "exited"

\* C14: in every environment in which Git is installed, both Git identity
\* keys are set, the GitHub CLI is unavailable or unauthenticated and the
\* working directory is not inside a Git work tree, main() of src/index.js
\* and main() of src/unnamed/part_000 perform the same sequence of ssh-keygen
\* probe, Windows capability query and install, SSH directory creation and
\* permission step, key-existence check, key generation, public key read and
\* clipboard copy, leave the same filesystem state and exit with the same
\* code.
C14_FullMainSubsumesSimpleMain ==
    BothExited /\ SimpleEnvironment =>
        /\ SharedCalls = simple.calls
        /\ sshDirState = simple.sshDirState /\ sshDirPerm = simple.sshDirPerm
        /\ privKey = simple.privKey /\ pubKey = simple.pubKey
        /\ gitName = start.gitName /\ gitEmail = start.gitEmail
        /\ originUrl = start.originUrl
        /\ exitCode = simple.exitCode

C14_Witness ==
    /\ BothExited /\ SimpleEnvironment
    /\ Did("which gh", FALSE)
    /\ start.sshDirState = "absent"
    /\ Did("ssh-keygen", TRUE)
    /\ simple.privKey = "generated"
    /\ Len(simple.calls) = 7
    /\ simple.exitCode = 0

====
